---- MODULE Spec2Model ----
(***************************************************************************)
(* SoftDeleteManager (src/src/utils/soft-delete.ts): the process-wide undo *)
(* token store, the single and bulk soft delete, the single and bulk undo, *)
(* the per-token removal timer and the expiry sweep.                       *)
(*                                                                         *)
(* Node runs the handlers on one thread: the code between two awaits is    *)
(* one atomic step.  Every action below is one such step of one call: the  *)
(* synchronous code up to and including the invocation of the next awaited *)
(* operation.  The awaited operations (deleteOperation, atomicOperations,  *)
(* rollbackOperations, restoreOperation) are caller supplied closures:     *)
(* each invocation returns, throws an AppError or throws another value.    *)
(*                                                                         *)
(* A call that settled shows its arguments, what it ran and its result in  *)
(* calls[c] (pc = "done") for one state; Return(c) then hands the result   *)
(* to the caller.  What has to be remembered about a token across calls    *)
(* is kept in minted.  The caller keeps one options object and passes it   *)
(* to its delete calls, one delete call at a time.                         *)
(***************************************************************************)
EXTENDS Integers, Sequences, FiniteSets, TLC

\* ---------------------------------------------------------------- bounds
MaxCalls   == 3      \* calls of the manager in one behaviour
MaxTokens  == 2      \* tokens minted in one behaviour
MaxTime    == 2      \* the clock runs over 0..MaxTime
MaxTimeout == 1      \* undoTimeoutMs is drawn from 1..MaxTimeout
MaxOps     == 2      \* longest rollbackOperations list of the caller
MaxAtomic  == 1      \* longest atomicOperations list
MaxIds     == 2      \* longest entityIds list
MaxAtomicRun == 2    \* longest atomicOperations list of SpecDeletes
MaxOrders  == 2      \* rows of the orders table
MaxRequests == 2     \* AdminOrderService calls in flight at one time
MaxLag     == 1      \* milliseconds the clock moves besides whole undo windows
MaxWindows == 1      \* whole undo windows the clock moves

Calls      == 1..MaxCalls
BogusToken == 0      \* a string that generateUndoToken never returned

VARIABLES now, undoTokens, timers, rollbackOperations, calls, minted,
          orders, requests

\* the orders table and the AdminOrderService calls in flight
svcVars == <<orders, requests>>

vars == <<now, undoTokens, timers, rollbackOperations, calls, minted, orders, requests>>

\* ------------------------------------------------------- pure helpers
RECURSIVE Reverse(_)
Reverse(s) == IF s = <<>> THEN <<>> ELSE Append(Reverse(Tail(s)), Head(s))

\* the list n, n-1, .., 1
Descending(n) == [k \in 1..n |-> n + 1 - k]

\* the events of a call's log that carry the tag
Events(ran, tag) == SelectSeq(ran, LAMBDA e : e[1] = tag)

OpResults == {"ok", "AppError", "Error"}

NoError == [cls |-> "none", message |-> "", status |-> 0]

AppError(message, status) == [cls |-> "AppError", message |-> message, status |-> status]

\* the value an awaited caller operation named src throws
Thrown(res, src) ==
    IF res = "AppError" THEN AppError(src, 409)
    ELSE [cls |-> "Error", message |-> src, status |-> 0]

\* every error wrapped, structured or not
RethrowWrapsAll(error, message) == AppError(message, 500)

\* `if (error instanceof AppError) throw error; throw new AppError(msg, 500)`
Rethrow(error, message) ==
    IF error.cls = "AppError" THEN error ELSE AppError(message, 500)

NoTokenData == [expires_at |-> -1, rollback_operations |-> <<>>,
                metadata |-> [entity_ids |-> <<>>, is_bulk |-> FALSE, deleted_at |-> -1]]

IdleCall == [op |-> "none", pc |-> "idle", entityIds |-> <<>>,
             includeUndoToken |-> FALSE, undoTimeoutMs |-> 0, nAtomic |-> 0,
             listed |-> <<>>, rollbackOps |-> <<>>,
             i |-> 0, error |-> NoError, undoToken |-> BogusToken,
             tokenData |-> NoTokenData, ran |-> <<>>,
             result |-> "none", thrown |-> NoError, undo_expires_at |-> -1,
             startNow |-> -1, priorSuccess |-> FALSE, priorThrew |-> FALSE,
             count |-> -1, valid |-> FALSE, priorRestored |-> FALSE]

IsDeleteOp(op) == op \in {"executeSoftDelete", "executeBulkSoftDelete"}
IsUndoOp(op)   == op \in {"executeUndo", "executeBulkUndo"}

\* the expiry comparison left out
ExpiredNever(data, t) == FALSE

\* a grace period after the expiry
ExpiredLate(data, t) == t > data.expires_at + 1

\* `new Date() > tokenData.expires_at`
Expired(data, t) == t > data.expires_at

\* generateUndoToken: timestamp plus random suffix, a string not seen before
generateUndoToken == Cardinality(DOMAIN minted) + 1

\* a call returns normally / throws
Returned(r) == [r EXCEPT !.pc = "done", !.result = "success"]
Throws(r, e) == [r EXCEPT !.pc = "done", !.result = "error", !.thrown = e]

\* Map.set / Map.delete on the token store
SetToken(tok, data) == (tok :> data) @@ undoTokens
DeleteToken(tok) == [x \in DOMAIN undoTokens \ {tok} |-> undoTokens[x]]

FailedToDelete(op) ==
    IF op = "executeBulkSoftDelete" THEN "Failed to delete entitys" ELSE "Failed to delete entity"
FailedToRestore(op) ==
    IF op = "executeBulkUndo" THEN "Failed to restore items" ELSE "Failed to restore item"

InvalidToken == AppError("Invalid or expired undo token", 400)
ExpiredToken == AppError("Undo token has expired", 400)
NotBulkToken == AppError("Token is not for bulk operation", 400)
NoEntityIds  == AppError("No entity IDs provided for bulk delete", 400)

\* no settled call is waiting to hand over its result
NoneDone == \A c \in Calls : calls[c].pc # "done"

\* c is the next call of the behaviour
NextCall(c) ==
    /\ NoneDone
    /\ calls[c].pc = "idle"
    /\ \A d \in Calls : d < c => calls[d].pc # "idle"

\* the caller's options object is handed to one delete call at a time
OptionsFree == \A c \in Calls : ~IsDeleteOp(calls[c].op)

\* ---------------------------------------------------------------------
\* AdminOrderService: the orders table and the service calls on it.
\* Each call is cut at its awaits: the getOrderById read and the
\* db.update write are separate steps, other calls run in between.

UndoWindowMs == 5000

Null == -1

OrderIds == 1..MaxOrders

Requests == 1..MaxRequests

\* values of the order status column that the calls below read or write
Statuses == {"PENDING", "DELIVERED"}

\* a row of the orders table; undo_expires_at is what softDeleteOrder
\* returned for the row's current deletion (Null when none was returned)
NewOrder(status) ==
    [status |-> status, deleted_at |-> Null, undo_expires_at |-> Null]

IdleRequest ==
    [op |-> "none", pc |-> "idle", id |-> 0, ids |-> {}, status |-> "none",
     startNow |-> 0, thrown |-> "none"]

\* a slot takes a new call when no call is in flight on it
RequestFree(q) == requests[q].pc \in {"idle", "returned", "failed"}

\* what getOrderById returns when no row passes its filter (null)
NoOrder == [status |-> "null", deleted_at |-> Null, undo_expires_at |-> Null]

\* getOrderById(id, include_deleted): the row, or NoOrder when filtered out
getOrderById(id, include_deleted) ==
    IF include_deleted \/ orders[id].deleted_at = Null
    THEN orders[id] ELSE NoOrder

\* a finished call keeps its name and its outcome only
Finished(op, pc, thrown) ==
    [IdleRequest EXCEPT !.op = op, !.pc = pc, !.thrown = thrown]

StartRequest(q, op, id, ids, status, pc, thrown) ==
    requests' = [requests EXCEPT ![q] =
        IF pc = "failed"
        THEN Finished(op, pc, thrown)
        ELSE [op |-> op, pc |-> pc, id |-> id, ids |-> ids, status |-> status,
              startNow |-> IF op = "undoSoftDelete" THEN now ELSE 0,
              thrown |-> thrown]]

FinishRequest(q) ==
    requests' = [requests EXCEPT ![q] = Finished(requests[q].op, "returned", "none")]

Init ==
    /\ now = 0
    /\ undoTokens = << >>
    /\ timers = {}
    /\ rollbackOperations \in {[k \in 1..n |-> k] : n \in 0..MaxOps}
    /\ calls = [c \in Calls |-> IdleCall]
    /\ minted = << >>
    /\ orders = [id \in OrderIds |-> NewOrder("PENDING")]
    /\ requests = [q \in Requests |-> IdleRequest]

\* ------------------------------------ executeSoftDelete / executeBulkSoftDelete
\* only the first id kept
MetadataFirstId(r) ==
    [entity_ids |-> <<Head(r.entityIds)>>,
     is_bulk |-> (r.op = "executeBulkSoftDelete"), deleted_at |-> now]

\* the metadata stored with the token: the id (the id list and is_bulk)
Metadata(r) ==
    [entity_ids |-> r.entityIds,
     is_bulk |-> (r.op = "executeBulkSoftDelete"), deleted_at |-> now]

\* `count: entityIds.length` of the bulk result's metadata
ResultCount(r) == IF r.op = "executeBulkSoftDelete" THEN Len(r.entityIds) ELSE -1

\* the option ignored
MintsTokenAlways(r) == TRUE

\* `if (includeUndoToken)`
MintsToken(r) == r.includeUndoToken

\* the synchronous tail of a delete whose operations all returned:
\* mint and store the token, arm the timer, return the result
FinishDelete(c, r) ==
    IF MintsToken(r)
    THEN LET tok  == generateUndoToken
             data == [expires_at |-> now + r.undoTimeoutMs,
                      rollback_operations |-> r.rollbackOps,
                      metadata |-> Metadata(r)]
         IN /\ undoTokens' = SetToken(tok, data)
            /\ timers' = timers \cup {[token |-> tok, due |-> now + r.undoTimeoutMs]}
            /\ minted' = (tok :> [data |-> data, undone |-> 0, restoreThrew |-> FALSE,
                                    restored |-> 0])
                             @@ minted
            /\ calls' = [calls EXCEPT ![c] =
                   Returned([r EXCEPT !.undoToken = tok,
                                      !.undo_expires_at = now + r.undoTimeoutMs,
                                      !.count = ResultCount(r)])]
    ELSE /\ calls' = [calls EXCEPT ![c] = Returned([r EXCEPT !.count = ResultCount(r)])]
         /\ UNCHANGED <<undoTokens, timers, minted>>

\* the rollback's error raised in place of the original one
RollbackThrewRaises(r) ==
    Throws([r EXCEPT !.ran = Append(@, <<"threw", 0>>)], AppError("rollbackOperation", 409))

\* after the rollback at index i threw: the inner catch logs it, the loop
\* is left and the original error is rethrown
RollbackThrew(r) ==
    Throws([r EXCEPT !.ran = Append(@, <<"threw", 0>>)], Rethrow(r.error, FailedToDelete(r.op)))

\* the array iterator of the rollback loop, before its first entry (r.i = 0)
\* and after the rollback at index r.i returned: it reads the next entry of
\* the array as it is now, or the loop ends and the original error is rethrown
NextRollback(r, arr) ==
    IF r.i < Len(arr)
    THEN [r EXCEPT !.pc = "rollback", !.i = r.i + 1,
                   !.ran = Append(@, <<"rollback", arr[r.i + 1]>>)]
    ELSE Throws(r, Rethrow(r.error, FailedToDelete(r.op)))

\* entry of the catch block: rollbackOperations.reverse() reverses the
\* caller's array in place, then the loop starts
CatchDelete(c, r, error) ==
    /\ rollbackOperations' = Reverse(rollbackOperations)
    /\ calls' = [calls EXCEPT ![c] =
           NextRollback([r EXCEPT !.i = 0, !.error = error,
                                  !.ran = Append(@, <<"threw", 0>>)],
                        Reverse(rollbackOperations))]
    /\ UNCHANGED <<undoTokens, timers, minted>>

\* the call is entered, the options are destructured, deleteOperation is invoked
BeginDelete(op, ids, inc, tmo, nAt) ==
    [IdleCall EXCEPT !.op = op, !.pc = "delete", !.entityIds = ids,
                     !.includeUndoToken = inc, !.undoTimeoutMs = tmo,
                     !.nAtomic = nAt, !.listed = rollbackOperations,
                     !.ran = <<<<"delete", 0>>>>]

executeSoftDelete(c, id, inc, tmo, nAt) ==
    /\ NextCall(c)
    /\ OptionsFree
    /\ inc => Cardinality(DOMAIN minted) < MaxTokens
    /\ calls' = [calls EXCEPT ![c] = BeginDelete("executeSoftDelete", <<id>>, inc, tmo, nAt)]
    /\ UNCHANGED <<now, undoTokens, timers, rollbackOperations, minted>>
    /\ UNCHANGED svcVars

\* the empty list let through
EmptyIdsNever(ids) == FALSE

\* `if (entityIds.length === 0) throw new AppError(..., 400)`
EmptyIds(ids) == Len(ids) = 0

executeBulkSoftDelete(c, ids, inc, tmo, nAt) ==
    /\ NextCall(c)
    /\ OptionsFree
    /\ inc => Cardinality(DOMAIN minted) < MaxTokens
    /\ calls' = [calls EXCEPT ![c] =
           IF EmptyIds(ids)
           THEN Throws([BeginDelete("executeBulkSoftDelete", ids, inc, tmo, nAt)
                            EXCEPT !.ran = <<>>], NoEntityIds)
           ELSE BeginDelete("executeBulkSoftDelete", ids, inc, tmo, nAt)]
    /\ UNCHANGED <<now, undoTokens, timers, rollbackOperations, minted>>
    /\ UNCHANGED svcVars

\* the token stored as soon as the main delete returned, before the atomic
\* operations have run
DeleteReturnMintsEarly(c, res) ==
    /\ NoneDone
    /\ calls[c].pc = "delete"
    /\ LET r == calls[c] IN
       IF res = "ok"
       THEN LET r1 == [r EXCEPT !.rollbackOps = rollbackOperations] IN
            /\ UNCHANGED rollbackOperations
            /\ IF r1.nAtomic = 0
               THEN FinishDelete(c, r1)
               ELSE /\ calls' = [calls EXCEPT ![c] =
                           [r1 EXCEPT !.pc = "atomic", !.i = 1,
                                      !.includeUndoToken = FALSE,
                                      !.ran = Append(@, <<"atomic", 1>>)]]
                    /\ IF r1.includeUndoToken
                       THEN LET tok  == generateUndoToken
                                data == [NoTokenData EXCEPT
                                            !.expires_at = now + r.undoTimeoutMs]
                            IN /\ undoTokens' = SetToken(tok, data)
                               /\ timers' = timers \cup
                                      {[token |-> tok, due |-> now + r.undoTimeoutMs]}
                               /\ minted' = (tok :> [data |-> data, undone |-> 0,
                                                     restoreThrew |-> FALSE,
                                                     restored |-> 0]) @@ minted
                       ELSE UNCHANGED <<undoTokens, timers, minted>>
       ELSE CatchDelete(c, r, Thrown(res, "deleteOperation"))
    /\ UNCHANGED now
    /\ UNCHANGED svcVars

\* deleteOperation / bulkDeleteOperation settles; on success the rollback
\* operations are copied and the first atomic operation is invoked
DeleteReturn(c, res) ==
    /\ NoneDone
    /\ calls[c].pc = "delete"
    /\ LET r == calls[c] IN
       IF res = "ok"
       THEN LET r1 == [r EXCEPT !.rollbackOps = rollbackOperations] IN
            /\ UNCHANGED rollbackOperations
            /\ IF r1.nAtomic = 0
               THEN FinishDelete(c, r1)
               ELSE /\ calls' = [calls EXCEPT ![c] =
                           [r1 EXCEPT !.pc = "atomic", !.i = 1,
                                      !.ran = Append(@, <<"atomic", 1>>)]]
                    /\ UNCHANGED <<undoTokens, timers, minted>>
       ELSE CatchDelete(c, r, Thrown(res, "deleteOperation"))
    /\ UNCHANGED now
    /\ UNCHANGED svcVars

\* the loop going on to the next atomic operation after one threw
AtomicReturnGoesOn(c, res) ==
    /\ NoneDone
    /\ calls[c].pc = "atomic"
    /\ LET r == calls[c] IN
       IF res = "ok" \/ r.i < r.nAtomic
       THEN /\ UNCHANGED rollbackOperations
            /\ IF r.i < r.nAtomic
               THEN /\ calls' = [calls EXCEPT ![c] =
                           [r EXCEPT !.i = r.i + 1,
                                     !.ran = IF res = "ok"
                                             THEN Append(@, <<"atomic", r.i + 1>>)
                                             ELSE @ \o <<<<"threw", 0>>, <<"atomic", r.i + 1>>>>]]
                    /\ UNCHANGED <<undoTokens, timers, minted>>
               ELSE FinishDelete(c, r)
       ELSE CatchDelete(c, r, Thrown(res, "atomicOperation"))
    /\ UNCHANGED now
    /\ UNCHANGED svcVars

\* atomicOperations[i] settles
AtomicReturn(c, res) ==
    /\ NoneDone
    /\ calls[c].pc = "atomic"
    /\ LET r == calls[c] IN
       IF res = "ok"
       THEN /\ UNCHANGED rollbackOperations
            /\ IF r.i < r.nAtomic
               THEN /\ calls' = [calls EXCEPT ![c] =
                           [r EXCEPT !.i = r.i + 1,
                                     !.ran = Append(@, <<"atomic", r.i + 1>>)]]
                    /\ UNCHANGED <<undoTokens, timers, minted>>
               ELSE FinishDelete(c, r)
       ELSE CatchDelete(c, r, Thrown(res, "atomicOperation"))
    /\ UNCHANGED now
    /\ UNCHANGED svcVars

\* a rollback of the catch block settles
RollbackReturn(c, res) ==
    /\ NoneDone
    /\ calls[c].pc = "rollback"
    /\ calls' = [calls EXCEPT ![c] =
           IF res = "ok" THEN NextRollback(calls[c], rollbackOperations)
           ELSE RollbackThrew(calls[c])]
    /\ UNCHANGED <<now, undoTokens, timers, rollbackOperations, minted>>
    /\ UNCHANGED svcVars

\* --------------------------------------------- executeUndo / executeBulkUndo
UndoCall(op, tok) ==
    [IdleCall EXCEPT !.op = op, !.undoToken = tok, !.startNow = now,
                     !.priorSuccess = (tok \in DOMAIN minted /\ minted[tok].undone > 0),
                     !.priorThrew = (tok \in DOMAIN minted /\ minted[tok].restoreThrew),
                     !.priorRestored = (tok \in DOMAIN minted /\ minted[tok].restored > 0)]

\* the token passed the checks: restoreOperation(tokenData.metadata) is invoked
InvokeRestore(op, tok) ==
    [UndoCall(op, tok) EXCEPT !.pc = "restore", !.tokenData = undoTokens[tok],
                              !.ran = <<<<"restore", 0>>>>]

\* the bulk check left out
NotBulkNever(op, data) == FALSE

\* `if (!tokenData.metadata.is_bulk) throw ...`, which only executeBulkUndo has
NotBulk(op, data) == op = "executeBulkUndo" /\ ~data.metadata.is_bulk

\* the expired token left for the timer to remove
BeginUndoKeepsExpired(c, op, tok) ==
    /\ NextCall(c)
    /\ IF tok \notin DOMAIN undoTokens
       THEN calls' = [calls EXCEPT ![c] = Throws(UndoCall(op, tok), InvalidToken)]
       ELSE IF Expired(undoTokens[tok], now)
       THEN calls' = [calls EXCEPT ![c] = Throws(UndoCall(op, tok), ExpiredToken)]
       ELSE IF NotBulk(op, undoTokens[tok])
       THEN calls' = [calls EXCEPT ![c] = Throws(UndoCall(op, tok), NotBulkToken)]
       ELSE calls' = [calls EXCEPT ![c] = InvokeRestore(op, tok)]
    /\ UNCHANGED <<now, undoTokens, timers, rollbackOperations, minted>>
    /\ UNCHANGED svcVars

\* executeUndo / executeBulkUndo up to the first await: the lookup, the
\* expiry check, the bulk check of executeBulkUndo, the restore invoked
BeginUndo(c, op, tok) ==
    /\ NextCall(c)
    /\ IF tok \notin DOMAIN undoTokens
       THEN /\ calls' = [calls EXCEPT ![c] = Throws(UndoCall(op, tok), InvalidToken)]
            /\ UNCHANGED undoTokens
       ELSE IF Expired(undoTokens[tok], now)
       THEN /\ undoTokens' = DeleteToken(tok)
            /\ calls' = [calls EXCEPT ![c] = Throws(UndoCall(op, tok), ExpiredToken)]
       ELSE IF NotBulk(op, undoTokens[tok])
       THEN /\ calls' = [calls EXCEPT ![c] = Throws(UndoCall(op, tok), NotBulkToken)]
            /\ UNCHANGED undoTokens
       ELSE /\ calls' = [calls EXCEPT ![c] = InvokeRestore(op, tok)]
            /\ UNCHANGED undoTokens
    /\ UNCHANGED <<now, timers, rollbackOperations, minted>>
    /\ UNCHANGED svcVars

executeUndo(c, tok) == BeginUndo(c, "executeUndo", tok)

executeBulkUndo(c, tok) == BeginUndo(c, "executeBulkUndo", tok)

\* what is remembered about a token: an undo of it returned success /
\* its restore operation returned (counted up to 2)
Consumed(m, tok) == [m EXCEPT ![tok].undone = IF @ < 2 THEN @ + 1 ELSE @]
RestoreDone(m, tok) == [m EXCEPT ![tok].restored = IF @ < 2 THEN @ + 1 ELSE @]

\* success returned with the token left in the store
FinishUndoKeepsToken(c, r) ==
    /\ UNCHANGED undoTokens
    /\ calls' = [calls EXCEPT ![c] = Returned(r)]

\* restore and every stored rollback returned: the token is deleted and
\* success is returned
FinishUndo(c, r) ==
    /\ undoTokens' = DeleteToken(r.undoToken)
    /\ calls' = [calls EXCEPT ![c] = Returned(r)]

\* a catch block that also drops the token
CatchUndoDropsToken(c, r, error) ==
    /\ calls' = [calls EXCEPT ![c] =
           Throws([r EXCEPT !.ran = Append(@, <<"threw", 0>>), !.error = error],
                  Rethrow(error, FailedToRestore(r.op)))]
    /\ undoTokens' = DeleteToken(r.undoToken)

\* the error logged and success returned
CatchUndoSwallows(c, r, error) ==
    /\ calls' = [calls EXCEPT ![c] =
           Returned([r EXCEPT !.ran = Append(@, <<"threw", 0>>), !.error = error])]
    /\ UNCHANGED undoTokens

\* the catch block of executeUndo / executeBulkUndo: the token is kept
CatchUndo(c, r, error) ==
    /\ calls' = [calls EXCEPT ![c] =
           Throws([r EXCEPT !.ran = Append(@, <<"threw", 0>>), !.error = error],
                  Rethrow(error, FailedToRestore(r.op)))]
    /\ UNCHANGED undoTokens

\* the stored rollbacks run last to first
StoredRollbacksReversed(data) == Reverse(data.rollback_operations)

\* `for (const rollback of tokenData.rollback_operations)`: the stored list
\* as it is, first to last
StoredRollbacks(data) == data.rollback_operations

\* restoreOperation / bulkRestoreOperation settles
RestoreReturn(c, res) ==
    /\ NoneDone
    /\ calls[c].pc = "restore"
    /\ LET r   == calls[c]
           r1  == [r EXCEPT !.ran = Append(@, <<"restored", 0>>)]
           ops == StoredRollbacks(r.tokenData)
       IN IF res = "ok"
          THEN IF ops = <<>>
               THEN /\ FinishUndo(c, r1)
                    /\ minted' = Consumed(RestoreDone(minted, r.undoToken), r.undoToken)
               ELSE /\ calls' = [calls EXCEPT ![c] =
                           [r1 EXCEPT !.pc = "undoRollback", !.i = 1,
                                      !.ran = Append(@, <<"rollback", ops[1]>>)]]
                    /\ minted' = RestoreDone(minted, r.undoToken)
                    /\ UNCHANGED undoTokens
          ELSE /\ CatchUndo(c, r, Thrown(res, "restoreOperation"))
               /\ minted' = [minted EXCEPT ![r.undoToken].restoreThrew = TRUE]
    /\ UNCHANGED <<now, timers, rollbackOperations>>
    /\ UNCHANGED svcVars

\* the token looked up again after every rollback
UndoRollbackReturnRereads(c, res) ==
    /\ NoneDone
    /\ calls[c].pc = "undoRollback"
    /\ LET r   == calls[c]
           ops == StoredRollbacks(r.tokenData)
       IN IF r.undoToken \notin DOMAIN undoTokens
          THEN /\ calls' = [calls EXCEPT ![c] = Throws(r, InvalidToken)]
               /\ UNCHANGED <<undoTokens, minted>>
          ELSE IF res = "ok"
          THEN IF r.i < Len(ops)
               THEN /\ calls' = [calls EXCEPT ![c] =
                           [r EXCEPT !.i = r.i + 1,
                                     !.ran = Append(@, <<"rollback", ops[r.i + 1]>>)]]
                    /\ UNCHANGED <<undoTokens, minted>>
               ELSE /\ FinishUndo(c, r)
                    /\ minted' = Consumed(minted, r.undoToken)
          ELSE /\ CatchUndo(c, r, Thrown(res, "rollbackOperation"))
               /\ UNCHANGED minted
    /\ UNCHANGED <<now, timers, rollbackOperations>>
    /\ UNCHANGED svcVars

\* a stored rollback operation settles during undo
UndoRollbackReturn(c, res) ==
    /\ NoneDone
    /\ calls[c].pc = "undoRollback"
    /\ LET r   == calls[c]
           ops == StoredRollbacks(r.tokenData)
       IN IF res = "ok"
          THEN IF r.i < Len(ops)
               THEN /\ calls' = [calls EXCEPT ![c] =
                           [r EXCEPT !.i = r.i + 1,
                                     !.ran = Append(@, <<"rollback", ops[r.i + 1]>>)]]
                    /\ UNCHANGED <<undoTokens, minted>>
               ELSE /\ FinishUndo(c, r)
                    /\ minted' = Consumed(minted, r.undoToken)
          ELSE /\ CatchUndo(c, r, Thrown(res, "rollbackOperation"))
               /\ UNCHANGED minted
    /\ UNCHANGED <<now, timers, rollbackOperations>>
    /\ UNCHANGED svcVars

\* the settled call hands its result to its caller
Return(c) ==
    /\ calls[c].pc = "done"
    /\ calls' = [calls EXCEPT ![c] = [IdleCall EXCEPT !.pc = "returned"]]
    /\ UNCHANGED <<now, undoTokens, timers, rollbackOperations, minted>>
    /\ UNCHANGED svcVars

\* ------------------------------------------------- timers and sweeps
\* a callback that runs before its delay has passed
TimerDueAnytime(tm) == TRUE

\* setTimeout(callback, undoTimeoutMs): the callback runs once the delay has passed
TimerDue(tm) == now >= tm.due

\* a callback that deletes nothing
TimerFireKeepsToken(tm) ==
    /\ NoneDone
    /\ tm \in timers
    /\ TimerDue(tm)
    /\ timers' = timers \ {tm}
    /\ UNCHANGED <<now, undoTokens, rollbackOperations, calls, minted>>
    /\ UNCHANGED svcVars

\* the setTimeout callback armed when the token was stored
TimerFire(tm) ==
    /\ NoneDone
    /\ tm \in timers
    /\ TimerDue(tm)
    /\ undoTokens' = DeleteToken(tm.token)
    /\ timers' = timers \ {tm}
    /\ UNCHANGED <<now, rollbackOperations, calls, minted>>
    /\ UNCHANGED svcVars

\* the entries the scan of cleanupExpiredTokens deletes, in the order the
\* Map iterates them (insertion order), and the store it leaves
SweptTokens ==
    SelectSeq([k \in 1..Cardinality(DOMAIN minted) |-> k],
              LAMBDA tok : tok \in DOMAIN undoTokens /\ Expired(undoTokens[tok], now))

\* the scan removing at the expiry, not after it
SweptAtExpiry ==
    [tok \in {x \in DOMAIN undoTokens : now < undoTokens[x].expires_at} |-> undoTokens[tok]]

Swept ==
    [tok \in {x \in DOMAIN undoTokens : ~Expired(undoTokens[x], now)} |-> undoTokens[tok]]

cleanupExpiredTokens ==
    /\ NoneDone
    /\ \E tok \in DOMAIN undoTokens : Expired(undoTokens[tok], now)
    /\ undoTokens' = Swept
    /\ UNCHANGED <<now, timers, rollbackOperations, calls, minted>>
    /\ UNCHANGED svcVars

\* the size of the store reported without the scan
getActiveTokensCountNoScan(c) ==
    /\ NextCall(c)
    /\ calls' = [calls EXCEPT ![c] =
           Returned([IdleCall EXCEPT !.op = "getActiveTokensCount",
                                     !.count = Cardinality(DOMAIN undoTokens)])]
    /\ UNCHANGED <<now, undoTokens, timers, rollbackOperations, minted>>
    /\ UNCHANGED svcVars

\* getActiveTokensCount: the scan, then the size of what is left
getActiveTokensCount(c) ==
    /\ NextCall(c)
    /\ undoTokens' = Swept
    /\ calls' = [calls EXCEPT ![c] =
           Returned([IdleCall EXCEPT !.op = "getActiveTokensCount",
                                     !.ran = [k \in 1..Len(SweptTokens) |->
                                                 <<"swept", SweptTokens[k]>>],
                                     !.count = Cardinality(DOMAIN Swept)])]
    /\ UNCHANGED <<now, timers, rollbackOperations, minted>>
    /\ UNCHANGED svcVars

\* presence taken for validity
isValidUndoTokenPresent(c, tok) ==
    /\ NextCall(c)
    /\ calls' = [calls EXCEPT ![c] =
           Returned([IdleCall EXCEPT !.op = "isValidUndoToken", !.undoToken = tok,
                                     !.valid = (tok \in DOMAIN undoTokens)])]
    /\ UNCHANGED <<now, undoTokens, timers, rollbackOperations, minted>>
    /\ UNCHANGED svcVars

\* isValidUndoToken: `tokenData !== undefined && new Date() <= tokenData.expires_at`
isValidUndoToken(c, tok) ==
    /\ NextCall(c)
    /\ calls' = [calls EXCEPT ![c] =
           Returned([IdleCall EXCEPT !.op = "isValidUndoToken", !.undoToken = tok,
                                     !.valid = (tok \in DOMAIN undoTokens
                                                /\ now <= undoTokens[tok].expires_at)])]
    /\ UNCHANGED <<now, undoTokens, timers, rollbackOperations, minted>>
    /\ UNCHANGED svcVars

\* the wall clock advances
Tick ==
    /\ NoneDone
    /\ now < MaxTime
    /\ now' = now + 1
    /\ UNCHANGED <<undoTokens, timers, rollbackOperations, calls, minted>>
    /\ UNCHANGED svcVars

\* the wall clock advances past MaxTime while an armed timer is not yet due
TickToDue ==
    /\ NoneDone
    /\ now >= MaxTime
    /\ \E tm \in timers : now < tm.due
    /\ now' = now + 1
    /\ UNCHANGED <<undoTokens, timers, rollbackOperations, calls, minted>>
    /\ UNCHANGED svcVars

IdLists == {Descending(n) : n \in 0..MaxIds}
Tokens  == DOMAIN minted \cup {BogusToken}

Next ==
    \/ \E c \in Calls, inc \in BOOLEAN, tmo \in 1..MaxTimeout, nAt \in 0..MaxAtomic :
          executeSoftDelete(c, 1, inc, tmo, nAt)
    \/ \E c \in Calls, ids \in IdLists, inc \in BOOLEAN, tmo \in 1..MaxTimeout,
          nAt \in 0..MaxAtomic :
          executeBulkSoftDelete(c, ids, inc, tmo, nAt)
    \/ \E c \in Calls, res \in OpResults : DeleteReturn(c, res)
    \/ \E c \in Calls, res \in OpResults : AtomicReturn(c, res)
    \/ \E c \in Calls, res \in OpResults : RollbackReturn(c, res)
    \/ \E c \in Calls, tok \in Tokens : executeUndo(c, tok)
    \/ \E c \in Calls, tok \in Tokens : executeBulkUndo(c, tok)
    \/ \E c \in Calls, res \in OpResults : RestoreReturn(c, res)
    \/ \E c \in Calls, res \in OpResults : UndoRollbackReturn(c, res)
    \/ \E tm \in timers : TimerFire(tm)
    \/ cleanupExpiredTokens
    \/ \E c \in Calls : getActiveTokensCount(c)
    \/ \E c \in Calls, tok \in Tokens : isValidUndoToken(c, tok)
    \/ Tick
    \/ \E c \in Calls : Return(c)

Spec == Init /\ [][Next]_vars

\* the single-entity calls, the sweeps and the timers, the clock running on
\* to the last armed timer
NextLive ==
    \/ \E c \in Calls, inc \in BOOLEAN, tmo \in 1..MaxTimeout, nAt \in 0..MaxAtomic :
          executeSoftDelete(c, 1, inc, tmo, nAt)
    \/ \E c \in Calls, res \in OpResults : DeleteReturn(c, res)
    \/ \E c \in Calls, res \in OpResults : AtomicReturn(c, res)
    \/ \E c \in Calls, res \in OpResults : RollbackReturn(c, res)
    \/ \E c \in Calls, tok \in Tokens : executeUndo(c, tok)
    \/ \E c \in Calls, res \in OpResults : RestoreReturn(c, res)
    \/ \E c \in Calls, res \in OpResults : UndoRollbackReturn(c, res)
    \/ \E tm \in timers : TimerFire(tm)
    \/ cleanupExpiredTokens
    \/ \E c \in Calls : getActiveTokensCount(c)
    \/ Tick
    \/ TickToDue
    \/ \E c \in Calls : Return(c)

\* time passes, a timer whose delay has passed runs its callback, a settled
\* call returns to its caller

SpecLive ==
    /\ Init /\ [][NextLive]_vars
    /\ WF_vars(Tick \/ TickToDue)
    /\ WF_vars(\E tm \in timers : TimerFire(tm))
    /\ WF_vars(\E c \in Calls : Return(c))

\* the delete calls alone, with longer atomicOperations lists
NextDeletes ==
    \/ \E c \in Calls, inc \in BOOLEAN, tmo \in 1..MaxTimeout, nAt \in 0..MaxAtomicRun :
          executeSoftDelete(c, 1, inc, tmo, nAt)
    \/ \E c \in Calls, ids \in IdLists, inc \in BOOLEAN, tmo \in 1..MaxTimeout,
          nAt \in 0..MaxAtomicRun :
          executeBulkSoftDelete(c, ids, inc, tmo, nAt)
    \/ \E c \in Calls, res \in OpResults : DeleteReturn(c, res)
    \/ \E c \in Calls, res \in OpResults : AtomicReturn(c, res)
    \/ \E c \in Calls, res \in OpResults : RollbackReturn(c, res)
    \/ Tick
    \/ \E c \in Calls : Return(c)

SpecDeletes == Init /\ [][NextDeletes]_vars

TypeOK ==
    /\ now \in 0..MaxTime
    /\ DOMAIN undoTokens \subseteq DOMAIN minted
    /\ \A tm \in timers : tm.token \in DOMAIN minted
    /\ Cardinality(DOMAIN minted) <= MaxTokens

\* ------------------------------------------------------------ properties
Done(c) == calls[c].pc = "done"

ExpiryOf(tok) == minted[tok].data.expires_at

MintedBy(tok, op) ==
    /\ tok \in DOMAIN minted
    /\ minted[tok].data.metadata.is_bulk = (op = "executeBulkSoftDelete")

\* the rollback operations a call invoked, in the order it invoked them
RollbacksRun(r) ==
    LET ev == Events(r.ran, "rollback") IN [k \in 1..Len(ev) |-> ev[k][2]]

Invoked(r, tag) == Events(r.ran, tag) # <<>>

\* the call was turned away at the token checks
Rejected(r) == r.result = "error" /\ r.thrown \in {InvalidToken, ExpiredToken, NotBulkToken}

\* C1: for a token minted by executeSoftDelete, executeUndo calls made one
\* after the other before the expiry succeed exactly once: a call made before
\* the expiry, with no successful undo of the token before it, is let through
\* to restoreOperation and returns success when its operations return; every
\* call made after a successful one fails as invalid or expired and never
\* invokes restoreOperation.
C1_UndoSucceedsExactlyOnce ==
    \A c \in Calls :
        LET r == calls[c] IN
        (Done(c) /\ r.op = "executeUndo" /\ MintedBy(r.undoToken, "executeSoftDelete"))
        => /\ r.priorSuccess =>
                /\ r.result = "error"
                /\ r.thrown \in {InvalidToken, ExpiredToken}
                /\ ~Invoked(r, "restore")
           /\ (~r.priorSuccess /\ r.startNow < ExpiryOf(r.undoToken)) =>
                /\ ~Rejected(r)
                /\ ~Invoked(r, "threw") => r.result = "success"

C1_Witness ==
    \E c \in Calls :
        /\ Done(c) /\ calls[c].op = "executeUndo"
        /\ MintedBy(calls[c].undoToken, "executeSoftDelete")
        /\ calls[c].priorSuccess
        /\ calls[c].startNow < ExpiryOf(calls[c].undoToken)
        /\ calls[c].thrown = InvalidToken

\* C2: a token is consumed at most once: of the executeUndo / executeBulkUndo
\* calls on one token, whatever their interleaving, at most one returns success.
C2_ConsumedAtMostOnce ==
    \A tok \in DOMAIN minted : minted[tok].undone <= 1

\* C3: an executeUndo call that starts after the token's expires_at fails as
\* invalid or expired and never invokes restoreOperation, whether or not the
\* removal timer has fired.
C3_LateUndoFails ==
    \A c \in Calls :
        LET r == calls[c] IN
        (r.op = "executeUndo" /\ r.undoToken \in DOMAIN minted
            /\ r.startNow > ExpiryOf(r.undoToken))
        => /\ Done(c)
           /\ r.result = "error"
           /\ r.thrown \in {InvalidToken, ExpiredToken}
           /\ ~Invoked(r, "restore")

\* the late call met the token still in the store, its timer not yet fired
C3_Witness ==
    \E c \in Calls :
        /\ Done(c) /\ calls[c].op = "executeUndo"
        /\ calls[c].thrown = ExpiredToken
        /\ \E tm \in timers : tm.token = calls[c].undoToken

\* C4: when deleteOperation (bulkDeleteOperation) throws, every entry of the
\* supplied rollbackOperations has been executed, in the reverse of the
\* listed order, when the error reaches the caller.
C4_RollbackAllOnDeleteFailure ==
    \A c \in Calls :
        LET r == calls[c] IN
        (Done(c) /\ IsDeleteOp(r.op) /\ r.error.message = "deleteOperation")
        => /\ r.result = "error"
           /\ RollbacksRun(r) = Reverse(r.listed)

\* C5: when the main delete returned and an atomic operation throws, every
\* entry of rollbackOperations has been executed in reverse order and the
\* thrown error propagates to the caller.
C5_RollbackAllOnAtomicFailure ==
    \A c \in Calls :
        LET r == calls[c] IN
        (Done(c) /\ IsDeleteOp(r.op) /\ r.error.message = "atomicOperation")
        => /\ r.result = "error"
           /\ r.thrown = Rethrow(r.error, FailedToDelete(r.op))
           /\ RollbacksRun(r) = Reverse(r.listed)

\* C6: a delete call whose main delete or atomic operation throws creates no
\* undo token: no step of a delete call that has not returned success
\* changes the token store or arms a timer, and the failed call's result
\* carries no token.
C6_FailedDeleteMintsNothing ==
    /\ [](\A c \in Calls :
            (Done(c) /\ IsDeleteOp(calls[c].op) /\ calls[c].result = "error")
            => calls[c].undoToken = BogusToken /\ calls[c].undo_expires_at = -1)
    /\ [][\A c \in Calls :
            (calls'[c] # calls[c] /\ IsDeleteOp(calls'[c].op)
                /\ calls'[c].result # "success")
            => undoTokens' = undoTokens /\ timers' = timers]_vars

\* an atomic operation threw in a call that asked for an undo token
C6_Witness ==
    \E c \in Calls :
        /\ Done(c) /\ IsDeleteOp(calls[c].op)
        /\ calls[c].error.message = "atomicOperation"
        /\ calls[c].includeUndoToken

\* C7: executeBulkSoftDelete with an empty entityIds fails with the
\* validation error in its first step: no operation is invoked, the token
\* store, the timers and the caller's rollbackOperations stay as they are.
C7_EmptyBulkRejected ==
    [][\A c \in Calls :
         (calls[c].pc = "idle" /\ calls'[c].op = "executeBulkSoftDelete"
             /\ calls'[c].entityIds = <<>>)
         => /\ calls'[c].pc = "done"
            /\ calls'[c].result = "error"
            /\ calls'[c].thrown = NoEntityIds
            /\ calls'[c].ran = <<>>
            /\ UNCHANGED <<undoTokens, timers, rollbackOperations>>]_vars

C7_Witness ==
    \E c \in Calls :
        /\ Done(c) /\ calls[c].op = "executeBulkSoftDelete"
        /\ calls[c].entityIds = <<>>
        /\ calls[c].thrown = NoEntityIds

\* C8: executeUndo with an unexpired token minted by executeBulkSoftDelete
\* does not invoke restoreOperation and does not return success.
C8_UndoRejectsBulkToken ==
    \A c \in Calls :
        LET r == calls[c] IN
        (r.op = "executeUndo" /\ MintedBy(r.undoToken, "executeBulkSoftDelete")
            /\ r.startNow <= ExpiryOf(r.undoToken))
        => ~Invoked(r, "restore") /\ r.result # "success"

\* C9: executeBulkUndo with a stored, unexpired token minted by
\* executeSoftDelete fails in its first step as "Token is not for bulk
\* operation": no operation is invoked and the token store is unchanged.
C9_BulkUndoRejectsSingleToken ==
    [][\A c \in Calls :
         LET tok == calls'[c].undoToken IN
         (calls[c].pc = "idle" /\ calls'[c].op = "executeBulkUndo"
             /\ tok \in DOMAIN undoTokens
             /\ ~undoTokens[tok].metadata.is_bulk
             /\ now <= undoTokens[tok].expires_at)
         => /\ calls'[c].pc = "done"
            /\ calls'[c].result = "error"
            /\ calls'[c].thrown = NotBulkToken
            /\ calls'[c].ran = <<>>
            /\ undoTokens' = undoTokens]_vars

C9_Witness ==
    \E c \in Calls :
        /\ Done(c) /\ calls[c].op = "executeBulkUndo"
        /\ calls[c].thrown = NotBulkToken
        /\ calls[c].undoToken \in DOMAIN undoTokens

\* the token of a failed restore is kept: while no undo of it has succeeded
\* and its expiry has not come, it is in the store
KeptAfterFailedRestore ==
    \A tok \in DOMAIN minted :
        (minted[tok].restoreThrew /\ minted[tok].undone = 0 /\ now < ExpiryOf(tok))
        => tok \in DOMAIN undoTokens

\* C10 as stated: after restoreOperation (bulkRestoreOperation) threw, the
\* token is still in the store, and a later call with the token made before
\* expires_at whose restore operation returns, returns success.
C10_RetryAfterFailedRestore ==
    /\ KeptAfterFailedRestore
    /\ \A c \in Calls :
          LET r == calls[c] IN
          (Done(c) /\ IsUndoOp(r.op) /\ r.priorThrew
              /\ r.startNow < ExpiryOf(r.undoToken) /\ Invoked(r, "restored"))
          => r.result = "success"

\* C10 amended: ... a later call with the token made before expires_at whose
\* restore operation and stored rollback operations all return, returns success.
C10_RetryAfterFailedRestoreAmended ==
    /\ KeptAfterFailedRestore
    /\ \A c \in Calls :
          LET r == calls[c] IN
          (Done(c) /\ IsUndoOp(r.op) /\ r.priorThrew
              /\ r.startNow < ExpiryOf(r.undoToken) /\ Invoked(r, "restored")
              /\ ~Invoked(r, "threw"))
          => r.result = "success"

\* the retry after a failed restore returned success
C10_Witness ==
    \E c \in Calls :
        /\ Done(c) /\ IsUndoOp(calls[c].op)
        /\ calls[c].priorThrew
        /\ calls[c].result = "success"

\* the step in which call c is made as op
Calling(c, op) == calls[c].pc = "idle" /\ calls'[c].op = op

\* C11: whatever the state and the clock, getActiveTokensCount returns the
\* number of stored tokens whose expires_at has not passed, and leaves no
\* token whose expires_at has passed in the store, fired timer or not.
C11_CountsOnlyUnexpired ==
    [][\A c \in Calls :
         Calling(c, "getActiveTokensCount")
         => /\ calls'[c].result = "success"
            /\ calls'[c].count =
                   Cardinality({tok \in DOMAIN undoTokens : now <= undoTokens[tok].expires_at})
            /\ \A tok \in DOMAIN undoTokens' : now <= undoTokens'[tok].expires_at]_vars

\* the count left out an expired token whose timer has not fired
C11_Witness ==
    \E c \in Calls :
        /\ Done(c) /\ calls[c].op = "getActiveTokensCount"
        /\ calls[c].ran # <<>>
        /\ \E tm \in timers : tm.token = calls[c].ran[1][2]
        /\ calls[c].count < Cardinality(DOMAIN minted)

\* C12: isValidUndoToken(token) returns true exactly when the token is in
\* the store and the clock is not past its expires_at, and it leaves the
\* token store as it was.
C12_ValidIffPresentAndUnexpired ==
    [][\A c \in Calls :
         Calling(c, "isValidUndoToken")
         => LET tok == calls'[c].undoToken IN
            /\ calls'[c].valid <=>
                   (tok \in DOMAIN undoTokens /\ ~(now > ExpiryOf(tok)))
            /\ undoTokens' = undoTokens
            /\ timers' = timers]_vars

\* an expired token not yet swept read as invalid and stayed in the store
C12_Witness ==
    \E c \in Calls :
        /\ Done(c) /\ calls[c].op = "isValidUndoToken"
        /\ calls[c].undoToken \in DOMAIN undoTokens
        /\ now > ExpiryOf(calls[c].undoToken)
        /\ ~calls[c].valid

\* a rollback of the catch block threw in this delete call
RollbackFailed(r) == IsDeleteOp(r.op) /\ Len(Events(r.ran, "threw")) = 2

\* C13: when a rollback throws while a failed delete is compensated, the
\* call does not return success and what it throws is the error of the
\* failed operation or the generic wrapping of it, not the rollback's error.
C13_RollbackErrorNeverReplaces ==
    \A c \in Calls :
        LET r == calls[c] IN
        (Done(c) /\ RollbackFailed(r))
        => /\ r.result = "error"
           /\ r.thrown = r.error \/ r.thrown = AppError(FailedToDelete(r.op), 500)
           /\ r.thrown.message # "rollbackOperation"

\* a rollback threw and the structured error of the delete reached the caller
C13_Witness ==
    \E c \in Calls :
        /\ Done(c) /\ RollbackFailed(calls[c])
        /\ calls[c].error = AppError("deleteOperation", 409)
        /\ calls[c].thrown = calls[c].error

\* C14: when the main delete or an atomic operation throws, the call throws
\* that same value if it is an AppError (same message, same status) and
\* otherwise an AppError of status 500 "Failed to delete <entityType>"
\* ("<entityType>s" from the bulk delete); nothing else.
C14_AppErrorPassesElseGeneric ==
    \A c \in Calls :
        LET r == calls[c] IN
        (Done(c) /\ IsDeleteOp(r.op) /\ r.error # NoError)
        => /\ r.result = "error"
           /\ IF r.error.cls = "AppError"
              THEN r.thrown = r.error
              ELSE /\ r.thrown.cls = "AppError"
                   /\ r.thrown.status = 500
                   /\ r.thrown.message = FailedToDelete(r.op)

\* an atomic operation threw an AppError and it reached the caller as it was
C14_Witness ==
    \E c \in Calls :
        /\ Done(c) /\ IsDeleteOp(calls[c].op)
        /\ calls[c].error = AppError("atomicOperation", 409)
        /\ calls[c].thrown = AppError("atomicOperation", 409)

\* C15: a successful executeBulkSoftDelete(L) reports count |L| and stores
\* with its token the metadata entity_ids = L (same elements, same order),
\* is_bulk = true; an executeBulkUndo with that token, started before the
\* expiry while no undo has consumed the token, invokes bulkRestoreOperation,
\* and an executeBulkUndo invokes it once only, with the stored metadata.
C15_BulkUndoRestoresTheList ==
    \A c \in Calls :
        LET r == calls[c] IN
        /\ (Done(c) /\ r.op = "executeBulkSoftDelete" /\ r.result = "success")
           => /\ r.count = Len(r.entityIds)
              /\ r.includeUndoToken =>
                    /\ r.undoToken \in DOMAIN undoTokens
                    /\ undoTokens[r.undoToken].metadata.entity_ids = r.entityIds
                    /\ undoTokens[r.undoToken].metadata.is_bulk
        /\ (r.op = "executeBulkUndo" /\ Invoked(r, "restore"))
           => /\ Len(Events(r.ran, "restore")) = 1
              /\ r.tokenData.metadata = minted[r.undoToken].data.metadata
              /\ r.tokenData.metadata.is_bulk
              /\ r.tokenData.metadata.entity_ids # <<>>
        /\ (Done(c) /\ r.op = "executeBulkUndo"
               /\ MintedBy(r.undoToken, "executeBulkSoftDelete")
               /\ ~r.priorSuccess /\ r.startNow < ExpiryOf(r.undoToken))
           => Invoked(r, "restore")

\* the bulk undo of the list 2, 1 returned success
C15_Witness ==
    \E c \in Calls :
        /\ Done(c) /\ calls[c].op = "executeBulkUndo"
        /\ calls[c].result = "success"
        /\ calls[c].tokenData.metadata.entity_ids = Descending(2)

\* C16: a delete call made with includeUndoToken = false changes neither the
\* token store nor the timers in any of its steps, and when it returns
\* success its result carries no undo_token and no undo_expires_at and none
\* of the supplied rollbackOperations was run.
C16_NoTokenWhenNotAsked ==
    [][\A c \in Calls :
         (calls'[c] # calls[c] /\ IsDeleteOp(calls'[c].op) /\ ~calls'[c].includeUndoToken)
         => /\ undoTokens' = undoTokens
            /\ timers' = timers
            /\ calls'[c].result = "success" =>
                  /\ calls'[c].undoToken = BogusToken
                  /\ calls'[c].undo_expires_at = -1
                  /\ RollbacksRun(calls'[c]) = <<>>]_vars

\* a delete with rollback and atomic operations returned success, unasked
\* for a token
C16_Witness ==
    \E c \in Calls :
        /\ Done(c) /\ IsDeleteOp(calls[c].op)
        /\ calls[c].result = "success"
        /\ ~calls[c].includeUndoToken
        /\ calls[c].listed # <<>>
        /\ Invoked(calls[c], "atomic")

\* C17: from the return of the delete that minted it up to its expires_at,
\* while no undo of it has succeeded, a token is in the store and
\* isValidUndoToken returns true for it; the removal timer removes no token
\* before its expires_at; at every time after expires_at isValidUndoToken
\* returns false.  (At the instant expires_at itself the timer may already
\* have run.)
C17_UsableForTheWholeWindow ==
    /\ [](\A tok \in DOMAIN minted :
            (minted[tok].undone = 0 /\ now < ExpiryOf(tok)) => tok \in DOMAIN undoTokens)
    /\ [](\A c \in Calls :
            LET r == calls[c] IN
            (Done(c) /\ r.op = "isValidUndoToken" /\ r.undoToken \in DOMAIN minted)
            => /\ (minted[r.undoToken].undone = 0 /\ now < ExpiryOf(r.undoToken)) => r.valid
               /\ now > ExpiryOf(r.undoToken) => ~r.valid)
    /\ [][\A tok \in DOMAIN undoTokens :
            (timers' # timers /\ tok \notin DOMAIN undoTokens')
            => now >= undoTokens[tok].expires_at]_vars

\* the token of a returned delete read as valid inside its window, its
\* timer armed
C17_Witness ==
    \E c \in Calls :
        /\ Done(c) /\ calls[c].op = "isValidUndoToken"
        /\ calls[c].undoToken \in DOMAIN minted
        /\ now < ExpiryOf(calls[c].undoToken)
        /\ calls[c].valid
        /\ \E tm \in timers : tm.token = calls[c].undoToken /\ tm.due > now

\* the atomic operations a call invoked, in the order it invoked them
AtomicsRun(r) ==
    LET ev == Events(r.ran, "atomic") IN [k \in 1..Len(ev) |-> ev[k][2]]

\* C18: the atomic operations of a delete call are invoked one at a time in
\* listed order: the first in the step in which the main delete returned,
\* the k-th in the step in which the (k-1)-th returned; none is invoked once
\* the main delete or an atomic operation threw.
C18_AtomicsInOrderAfterDelete ==
    /\ [](\A c \in Calls :
            LET r == calls[c] IN
            /\ AtomicsRun(r) = [k \in 1..Len(AtomicsRun(r)) |-> k]
            /\ Len(AtomicsRun(r)) <= r.nAtomic
            /\ r.error.message = "deleteOperation" => AtomicsRun(r) = <<>>
            /\ \A p, q \in 1..Len(r.ran) :
                  (p < q /\ r.ran[q][1] = "atomic") => r.ran[p][1] \in {"delete", "atomic"})
    /\ [][\A c \in Calls :
            Len(AtomicsRun(calls'[c])) > Len(AtomicsRun(calls[c]))
            => LET k == Len(AtomicsRun(calls'[c])) IN
               /\ Len(AtomicsRun(calls[c])) = k - 1
               /\ calls'[c].error = NoError /\ ~Invoked(calls'[c], "threw")
               /\ k = 1 => calls[c].pc = "delete"
               /\ k > 1 => calls[c].pc = "atomic" /\ calls[c].i = k - 1]_vars

\* the first of two atomic operations threw and the second was not invoked
C18_Witness ==
    \E c \in Calls :
        /\ Done(c) /\ IsDeleteOp(calls[c].op)
        /\ calls[c].nAtomic = 2
        /\ calls[c].error.message = "atomicOperation"
        /\ AtomicsRun(calls[c]) = <<1>>

\* C19: an undo call that returns success has invoked restoreOperation, seen
\* it return, then invoked every rollback operation stored with the token in
\* the stored (forward) order, and nothing else; no step of an undo call
\* before its last one changes the token store; once an undo of a token has
\* returned success the token is not in the store.
C19_UndoStepsInOrder ==
    /\ [](\A c \in Calls :
            LET r == calls[c] IN
            (Done(c) /\ IsUndoOp(r.op) /\ r.result = "success")
            => LET ops == minted[r.undoToken].data.rollback_operations IN
               /\ r.ran = <<<<"restore", 0>>, <<"restored", 0>>>>
                              \o [k \in 1..Len(ops) |-> <<"rollback", ops[k]>>]
               /\ r.undoToken \notin DOMAIN undoTokens)
    /\ [](\A tok \in DOMAIN minted : minted[tok].undone > 0 => tok \notin DOMAIN undoTokens)
    /\ [][\A c \in Calls :
            (calls'[c] # calls[c] /\ calls'[c].pc \in {"restore", "undoRollback"})
            => undoTokens' = undoTokens]_vars

\* an undo that ran two stored rollbacks returned success
C19_Witness ==
    \E c \in Calls :
        /\ Done(c) /\ IsUndoOp(calls[c].op)
        /\ calls[c].result = "success"
        /\ Len(RollbacksRun(calls[c])) = 2

\* call c is made as an undo with a token that is in the store, past its expires_at
CallingWithExpired(c) ==
    /\ Calling(c, "executeUndo") \/ Calling(c, "executeBulkUndo")
    /\ calls'[c].undoToken \in DOMAIN undoTokens
    /\ now > undoTokens[calls'[c].undoToken].expires_at

\* C20 as stated: executeUndo / executeBulkUndo with a token that is in the
\* store but past its expires_at removes the token and fails with the fault
\* thrown for a token that is not in the store.
C20_ExpiredFailsAsMissing ==
    [][\A c \in Calls :
         CallingWithExpired(c)
         => /\ calls'[c].undoToken \notin DOMAIN undoTokens'
            /\ calls'[c].result = "error"
            /\ calls'[c].thrown = InvalidToken]_vars

\* C20 amended: ... removes the token, invokes no operation and fails with
\* the AppError "Undo token has expired": the class and the status (400) of
\* the fault thrown for a token that is not in the store, under a message
\* of its own.
C20_ExpiredFailsAsExpired ==
    [][\A c \in Calls :
         CallingWithExpired(c)
         => /\ DOMAIN undoTokens' = DOMAIN undoTokens \ {calls'[c].undoToken}
            /\ calls'[c].pc = "done"
            /\ calls'[c].result = "error"
            /\ calls'[c].ran = <<>>
            /\ calls'[c].thrown = AppError("Undo token has expired", 400)
            /\ calls'[c].thrown.cls = InvalidToken.cls
            /\ calls'[c].thrown.status = InvalidToken.status
            /\ calls'[c].thrown.message # InvalidToken.message]_vars

\* executeBulkUndo met an expired token before its timer and removed it
C20_Witness ==
    \E c \in Calls :
        /\ Done(c) /\ calls[c].op = "executeBulkUndo"
        /\ calls[c].thrown = ExpiredToken
        /\ calls[c].undoToken \notin DOMAIN undoTokens
        /\ \E tm \in timers : tm.token = calls[c].undoToken

\* C21: when a rollback throws while a failed delete is compensated, the
\* rollbacks after it in the reversed order (earlier in the listed order)
\* are still executed: by the time the error reaches the caller every
\* listed rollback has been invoked, last to first.
C21_RollbackBestEffortPerEntry ==
    \A c \in Calls :
        LET r == calls[c] IN
        (Done(c) /\ RollbackFailed(r)) => RollbacksRun(r) = Reverse(r.listed)

\* C28: a delete call leaves the caller's rollbackOperations list as it was
\* handed in, content and order, when it returns and when it throws.
C28_RollbackListUntouched ==
    \A c \in Calls :
        (Done(c) /\ IsDeleteOp(calls[c].op)) => rollbackOperations = calls[c].listed

\* a step of cleanupExpiredTokens, called by itself or by getActiveTokensCount
SweepStep ==
    \/ undoTokens' # undoTokens /\ UNCHANGED <<calls, timers>>
    \/ \E c \in Calls : Calling(c, "getActiveTokensCount")

\* C24: cleanupExpiredTokens removes every token whose expires_at has passed
\* and no other: a token whose expires_at has not passed is in the store
\* afterwards with the expiry, rollback operations and metadata it had.
C24_SweepRemovesExactlyExpired ==
    [][SweepStep =>
         \A tok \in DOMAIN undoTokens :
            IF now > undoTokens[tok].expires_at
            THEN tok \notin DOMAIN undoTokens'
            ELSE tok \in DOMAIN undoTokens' /\ undoTokens'[tok] = undoTokens[tok]]_vars

\* two deletes returned and nothing else was called: the sweep removed the
\* expired token, whose timer is still armed, and kept the other one
C24_Witness ==
    /\ calls[1].pc = "returned" /\ calls[2].pc = "returned" /\ calls[3].pc = "idle"
    /\ \E a, b \in DOMAIN minted :
          /\ a \notin DOMAIN undoTokens /\ now > ExpiryOf(a)
          /\ \E tm \in timers : tm.token = a
          /\ b \in DOMAIN undoTokens /\ now <= ExpiryOf(b)
          /\ undoTokens[b] = minted[b].data

\* C25: restoreOperation is invoked only for a token that is in the store
\* with the clock not past its expires_at, whatever the timer, the sweep and
\* other undo calls did before; removing a token that is already gone is a
\* no-op: the timer callback changes nothing and raises nothing, and an undo
\* whose operations returned still returns success.
C25_NoRestoreOfExpiredNoDoubleRemoval ==
    [][/\ \A c \in Calls :
            (calls[c].pc = "idle" /\ Invoked(calls'[c], "restore"))
            => /\ calls'[c].undoToken \in DOMAIN undoTokens
               /\ now <= ExpiryOf(calls'[c].undoToken)
       /\ \A tm \in timers \ timers' :
            tm.token \notin DOMAIN undoTokens => UNCHANGED <<undoTokens, calls>>
       /\ \A c \in Calls :
            (calls[c].pc \in {"restore", "undoRollback"} /\ calls'[c].pc = "done"
                /\ ~Invoked(calls'[c], "threw")
                /\ calls[c].undoToken \notin DOMAIN undoTokens)
            => calls'[c].result = "success" /\ undoTokens' = undoTokens]_vars

\* a token both consumed by an undo and met by its timer
C25_Witness ==
    /\ NoneDone
    /\ \E tok \in DOMAIN minted :
          /\ minted[tok].undone >= 1
          /\ now >= ExpiryOf(tok)
          /\ ~\E tm \in timers : tm.token = tok

\* C26: when restoreOperation (bulkRestoreOperation) or a stored rollback
\* throws during an undo, the call does not return success: it throws that
\* same value if it is an AppError and otherwise an AppError of status 500
\* "Failed to restore item" ("items" from the bulk undo).
C26_UndoErrorPassesElseGeneric ==
    \A c \in Calls :
        LET r == calls[c] IN
        (Done(c) /\ IsUndoOp(r.op) /\ r.error # NoError)
        => /\ r.result = "error"
           /\ IF r.error.cls = "AppError"
              THEN r.thrown = r.error
              ELSE /\ r.thrown.cls = "AppError"
                   /\ r.thrown.status = 500
                   /\ r.thrown.message = FailedToRestore(r.op)

\* a stored rollback threw a plain error after the restore had returned
C26_Witness ==
    \E c \in Calls :
        /\ Done(c) /\ IsUndoOp(calls[c].op)
        /\ Invoked(calls[c], "restored")
        /\ calls[c].error = Thrown("Error", "rollbackOperation")
        /\ calls[c].thrown.status = 500

\* C27: an undo that passed the expiry check works on the token data it
\* captured at the lookup: the timer's removal changes no call, and when the
\* window has elapsed by the time its operations have all returned, the call
\* has run every captured rollback in order, returns success, and the token
\* is not in the store.
C27_InFlightUndoOutlivesTimer ==
    /\ [](\A c \in Calls :
            LET r == calls[c] IN
            /\ (IsUndoOp(r.op) /\ r.pc \in {"restore", "undoRollback"})
               => r.tokenData = minted[r.undoToken].data
            /\ (Done(c) /\ IsUndoOp(r.op) /\ Invoked(r, "restore") /\ ~Invoked(r, "threw")
                   /\ now > ExpiryOf(r.undoToken))
               => /\ r.result = "success"
                  /\ RollbacksRun(r) = r.tokenData.rollback_operations
                  /\ r.undoToken \notin DOMAIN undoTokens)
    /\ [][timers' # timers /\ Cardinality(timers') < Cardinality(timers)
             => calls' = calls]_vars

\* the timer removed the token while the undo was awaiting; the undo ran its
\* rollbacks and returned success
C27_Witness ==
    \E c \in Calls :
        /\ Done(c) /\ IsUndoOp(calls[c].op)
        /\ calls[c].result = "success"
        /\ calls[c].startNow <= ExpiryOf(calls[c].undoToken)
        /\ now > ExpiryOf(calls[c].undoToken)
        /\ ~\E tm \in timers : tm.token = calls[c].undoToken
        /\ Len(RollbacksRun(calls[c])) >= 1
        /\ minted[calls[c].undoToken].undone = 1

\* C22: over every sequence of undo calls made with a token, the calls that
\* fail because a stored rollback throws after the restore returned
\* included, restoreOperation returns at most once: in a call made after
\* the restore operation of an earlier call with the token has returned,
\* restoreOperation does not return again.
C22_RestoreAtMostOnce ==
    \A c \in Calls :
        LET r == calls[c] IN
        (IsUndoOp(r.op) /\ r.priorRestored) => ~Invoked(r, "restored")

\* C23: every token that is stored is later absent from the store, whether
\* or not any undo, sweep or count is ever called, given that time passes
\* and armed timers run; a token that is absent never comes back.
C23_EveryTokenEventuallyRemoved ==
    /\ \A tok \in 1..MaxTokens :
          (tok \in DOMAIN undoTokens) ~> (tok \notin DOMAIN undoTokens)
    /\ [][\A tok \in DOMAIN minted :
            tok \notin DOMAIN undoTokens => tok \notin DOMAIN undoTokens']_vars

\* only deletes were called and the timers alone emptied the store
C23_Witness ==
    /\ \A c \in Calls : calls[c].pc = IF c <= 2 THEN "returned" ELSE "idle"
    /\ Cardinality(DOMAIN minted) = 2
    /\ undoTokens = << >>
    /\ timers = {}
    /\ \A tok \in DOMAIN minted : minted[tok].undone = 0 /\ minted[tok].restored = 0

\* ---------------------------------------------------------------------
\* AdminOrderService actions

sdVars == <<undoTokens, timers, rollbackOperations, calls, minted>>

\* softDeleteOrder up to its first await: the read and the three checks
softDeleteOrder(q, id) ==
    /\ RequestFree(q)
    /\ LET existingOrder == getOrderById(id, FALSE)
           thrown == IF existingOrder = NoOrder THEN "Order not found"
                     ELSE IF existingOrder.deleted_at # Null
                          THEN "Order is already deleted"
                     ELSE IF existingOrder.status = "DELIVERED"
                          THEN "Cannot delete delivered orders"
                     ELSE "none"
       IN  StartRequest(q, "softDeleteOrder", id, {}, "none",
                        IF thrown = "none" THEN "softDeleteWrite" ELSE "failed",
                        thrown)
    /\ UNCHANGED <<now, orders>>
    /\ UNCHANGED sdVars

\* the update of softDeleteOrder: deleted_at = new Date(), whatever the row is by now
SoftDeleteWrite(q) ==
    /\ requests[q].pc = "softDeleteWrite"
    /\ orders' = [orders EXCEPT ![requests[q].id].deleted_at = now,
                                ![requests[q].id].undo_expires_at = Null]
    /\ requests' = [requests EXCEPT ![q].pc = "softDeleteReturn"]
    /\ UNCHANGED now
    /\ UNCHANGED sdVars

\* softDeleteOrder after the update: undo_expires_at = Date.now() + 5000 is returned
SoftDeleteReturn(q) ==
    /\ requests[q].pc = "softDeleteReturn"
    /\ orders' = [orders EXCEPT ![requests[q].id].undo_expires_at =
                      IF orders[requests[q].id].deleted_at # Null
                      THEN now + UndoWindowMs ELSE Null]
    /\ FinishRequest(q)
    /\ UNCHANGED now
    /\ UNCHANGED sdVars

\* updateOrder up to its first await: the read of the undeleted row
updateOrder(q, id, status) ==
    /\ RequestFree(q)
    /\ LET existingOrder == getOrderById(id, FALSE)
       IN  IF existingOrder = NoOrder
           THEN StartRequest(q, "updateOrder", id, {}, status, "failed", "Order not found")
           ELSE StartRequest(q, "updateOrder", id, {}, status, "updateWrite", "none")
    /\ UNCHANGED <<now, orders>>
    /\ UNCHANGED sdVars

\* the update of updateOrder: where id = id only
UpdateWrite(q) ==
    /\ requests[q].pc = "updateWrite"
    /\ orders' = [orders EXCEPT ![requests[q].id].status = requests[q].status]
    /\ FinishRequest(q)
    /\ UNCHANGED now
    /\ UNCHANGED sdVars

\* bulkUpdateOrderStatus up to its await: the empty list is refused
bulkUpdateOrderStatus(q, orderIds, status) ==
    /\ RequestFree(q)
    /\ IF orderIds = {}
       THEN StartRequest(q, "bulkUpdateOrderStatus", 0, orderIds, status,
                         "failed", "No order IDs provided")
       ELSE StartRequest(q, "bulkUpdateOrderStatus", 0, orderIds, status,
                         "bulkWrite", "none")
    /\ UNCHANGED <<now, orders>>
    /\ UNCHANGED sdVars

\* the one update of bulkUpdateOrderStatus: id in orderIds and deleted_at is null
BulkWrite(q) ==
    /\ requests[q].pc = "bulkWrite"
    /\ orders' = [id \in OrderIds |->
                    IF id \in requests[q].ids /\ orders[id].deleted_at = Null
                    THEN [orders[id] EXCEPT !.status = requests[q].status]
                    ELSE orders[id]]
    /\ FinishRequest(q)
    /\ UNCHANGED now
    /\ UNCHANGED sdVars

\* undoSoftDelete up to its first await: the read with deleted rows included
undoSoftDelete(q, id) ==
    /\ RequestFree(q)
    /\ LET existingOrder == getOrderById(id, TRUE)
       IN  IF existingOrder = NoOrder
           THEN StartRequest(q, "undoSoftDelete", id, {}, "none", "failed", "Order not found")
           ELSE IF existingOrder.deleted_at = Null
           THEN StartRequest(q, "undoSoftDelete", id, {}, "none", "failed", "Order is not deleted")
           ELSE StartRequest(q, "undoSoftDelete", id, {}, "none", "undoWrite", "none")
    /\ UNCHANGED <<now, orders>>
    /\ UNCHANGED sdVars

\* the update of undoSoftDelete: deleted_at = null
UndoWrite(q) ==
    /\ requests[q].pc = "undoWrite"
    /\ orders' = [orders EXCEPT ![requests[q].id].deleted_at = Null,
                                ![requests[q].id].undo_expires_at = Null]
    /\ FinishRequest(q)
    /\ UNCHANGED now
    /\ UNCHANGED sdVars

\* the clock moves by one millisecond
OrdersTick ==
    /\ now % UndoWindowMs < MaxLag
    /\ now' = now + 1
    /\ UNCHANGED svcVars
    /\ UNCHANGED sdVars

\* the clock moves by the whole undo window
WindowElapses ==
    /\ now < MaxWindows * UndoWindowMs
    /\ now' = now + UndoWindowMs
    /\ UNCHANGED svcVars
    /\ UNCHANGED sdVars

InitOrders ==
    /\ now = 0
    /\ undoTokens = << >>
    /\ timers = {}
    /\ rollbackOperations = << >>
    /\ calls = [c \in Calls |-> IdleCall]
    /\ minted = << >>
    /\ orders \in [OrderIds -> {NewOrder(s) : s \in Statuses}]
    /\ requests = [q \in Requests |-> IdleRequest]

NextOrders ==
    \/ \E q \in Requests, id \in OrderIds : softDeleteOrder(q, id)
    \/ \E q \in Requests : SoftDeleteWrite(q)
    \/ \E q \in Requests : SoftDeleteReturn(q)
    \/ \E q \in Requests, id \in OrderIds, status \in Statuses : updateOrder(q, id, status)
    \/ \E q \in Requests : UpdateWrite(q)
    \/ \E q \in Requests, orderIds \in SUBSET OrderIds, status \in Statuses :
           bulkUpdateOrderStatus(q, orderIds, status)
    \/ \E q \in Requests : BulkWrite(q)
    \/ \E q \in Requests, id \in OrderIds : undoSoftDelete(q, id)
    \/ \E q \in Requests : UndoWrite(q)
    \/ OrdersTick
    \/ WindowElapses

SpecOrders == InitOrders /\ [][NextOrders]_vars

OrdersTypeOK ==
    /\ orders \in [OrderIds -> [status : Statuses,
                                deleted_at : {Null} \cup 0..(MaxWindows * UndoWindowMs + MaxLag),
                                undo_expires_at : {Null} \cup 0..((MaxWindows + 1) * UndoWindowMs + MaxLag)]]
    /\ \A q \in Requests : requests[q].pc \in
           {"idle", "returned", "failed", "softDeleteWrite", "softDeleteReturn",
            "updateWrite", "bulkWrite", "undoWrite"}

\* C29: no order is ever both in status DELIVERED and soft-deleted, under
\* every interleaving of softDeleteOrder, updateOrder, bulkUpdateOrderStatus
\* and undoSoftDelete
C29_NeverDeliveredAndDeleted ==
    \A id \in OrderIds :
        ~(orders[id].status = "DELIVERED" /\ orders[id].deleted_at # Null)

\* C30: an undoSoftDelete(id) made after the undo_expires_at that
\* softDeleteOrder returned is rejected and leaves the order soft-deleted
C30_UndoWindowEnforced ==
    [][\A q \in Requests :
          (/\ requests[q].pc = "undoWrite"
           /\ orders[requests[q].id].undo_expires_at # Null
           /\ requests[q].startNow > orders[requests[q].id].undo_expires_at)
          => orders'[requests[q].id].deleted_at # Null]_vars

====
